---------------------------- MODULE Spec2Model ----------------------------
(***************************************************************************)
(* State-machine model of the comments service of yoom_server:             *)
(*   - the room fanout bus and connection registry                          *)
(*     (src/comments-service/src/index.ts, lines 119-236),                  *)
(*   - the ingestion handlers (HTTP POST /comments and the socket           *)
(*     'comment' message, index.ts lines 56-116 and 191-222),               *)
(*   - the persistence consumers (src/comments-service/src/worker.ts and    *)
(*     the list worker src/unnamed/part_001).                               *)
(* Every Node process is single threaded: a handler runs to its next        *)
(* await / setImmediate without interleaving, so each action below is one   *)
(* such run-to-completion segment.                                          *)
(***************************************************************************)
EXTENDS Integers, Sequences, FiniteSets, TLC

(***************************************************************************)
(* Bounds of the model.                                                    *)
(***************************************************************************)
MaxConns == 2
MaxPublish == 1
\* stands for the 500 entries LTRIM keeps (index.ts 107, 214: ltrim(key, 0, 499))
CacheCap == 2

Instances == {"A", "B"}
Conns == 1..MaxConns
\* roomId query parameter of a socket; "" is what `|| ''` yields when absent
RoomIds == {"v1", "v2"}
RoomParams == RoomIds \cup {""}
NoRoom == "-"
\* `user:${replyToUserId}`, the personal room a reply is published to
UserIds == {"u1", "u2"}
UserRoom(u) == IF u = "u1" THEN "user:u1" ELSE "user:u2"
AllRooms == RoomIds \cup {UserRoom(u) : u \in UserIds}

\* the n-th value randomUUID() returns
Uuid(n) == <<"uuid", n>>

\* `room:${roomId}`
Channel(roomId) == <<"room:", roomId>>
Channels == {Channel(r) : r \in AllRooms}

\* `chat:${scope}:${videoId}`
Scopes == {"live", "vod"}
CacheKey(scope, videoId) == <<"chat:", scope, videoId>>
CacheKeys == {CacheKey(sc, v) : sc \in Scopes, v \in RoomIds}

VARIABLES
    REDIS_URL,        \* TRUE iff REDIS_URL is set (redisPublisher/redisSubscriber non-null)
    ws,               \* per socket: state, and while open the instance and roomId
    roomSubscribers,  \* per instance: Map<string, Set<WS>> (a function on the rooms present)
    localBus,         \* per instance: EventEmitter listeners, per channel, in order
    immediateQ,       \* per instance: pending setImmediate callbacks, FIFO
    sent,             \* per socket: what ws.send() has been given, in order
    redisPubQ,        \* per instance: commands issued on redisPublisher, not yet processed
    redisSubQ,        \* per instance: commands issued on redisSubscriber, not yet processed
    redisMsgQ,        \* per instance: messages pushed by the server to redisSubscriber
    redisSubs,        \* server side: channels each instance's redisSubscriber is subscribed to
    cache,            \* server side: the hot-cache lists, newest first, per key
    nPub,             \* number of publish() calls so far
    owed,             \* history: <<socket, id>>: the socket was attached, on another instance
                      \* than the publisher, when payload id was published to its room, and
                      \* no distributed-channel command the relay to it needs has failed
    hist,             \* history: the orderings of publish, join, close and dispatch seen
    rd                \* the GET /comments request (index.ts 35-53): where its handler is,
                      \* its key and limit, and its response

busVars == <<REDIS_URL, ws, roomSubscribers, localBus, immediateQ, sent, redisPubQ,
             redisSubQ, redisMsgQ, redisSubs, cache, nPub, owed, hist, rd>>

VARIABLES
    PERSIST_MODE,     \* COMMENTS_PERSIST, lower-cased (index.ts 64)
    SAMPLE_RATE,      \* SAMPLE_RATE clamped to [0, 1], in percent (index.ts 65)
    reqs,             \* per ingestion (HTTP request or socket message): where its handler is
    nextId,           \* number of randomUUID() calls so far
    kafkaTopic,       \* the 'comments' topic: per partition key, the messages in offset order
    db,               \* the Comment table: the rows stored
    nextRow           \* number of ids the store has minted for rows inserted without one

ingestVars == <<PERSIST_MODE, SAMPLE_RATE, reqs, nextId, kafkaTopic, db, nextRow>>

VARIABLES
    kOffset,          \* per partition of the topic: the offset the consumer has resolved
    kc,               \* the Kafka consumer (worker.ts): where eachBatch is, its validComments
    listQueue,        \* the redis list comments:queue (part_001 line 15)
    dlq,              \* the redis list comments:queue:dlq (part_001 line 16)
    lw,               \* per list worker process (part_001): where processBatch is, its locals
    produced,         \* how many entries producers have put on the topic and the list
    redelivered,      \* how many times the consumer group was rewound
    origin            \* history: <<row id, id of the queue entry the row was stored for>>

workerVars == <<kOffset, kc, listQueue, dlq, lw, produced, redelivered, origin>>

vars == <<busVars, ingestVars, workerVars>>

(***************************************************************************)
(* Helpers on sequences and maps.                                          *)
(***************************************************************************)
Range(s) == {s[k] : k \in DOMAIN s}

\* Map.set / Map.delete on a function whose domain is the set of keys present
MapSet(m, k, v) == [x \in (DOMAIN m) \cup {k} |-> IF x = k THEN v ELSE m[x]]
MapDelete(m, k) == [x \in (DOMAIN m) \ {k} |-> m[x]]

\* EventEmitter.off(channel, listener): removes the most recently added instance
RemoveListener(ls, c) ==
    IF c \notin Range(ls) THEN ls
    ELSE LET k == CHOOSE j \in DOMAIN ls :
                      ls[j] = c /\ \A j2 \in DOMAIN ls : ls[j2] = c => j2 <= j
         IN  SubSeq(ls, 1, k - 1) \o SubSeq(ls, k + 1, Len(ls))

\* ws.send(msg) inside onLocal, for every listener of the channel in registration order
RECURSIVE SendAll(_, _, _)
SendAll(ls, msg, out) ==
    IF ls = <<>> THEN out
    ELSE SendAll(Tail(ls), msg, [out EXCEPT ![Head(ls)] = Append(@, msg)])

\* localBus.emit(channel, text) on instance i: the value of `sent` afterwards
Emit(i, channel, text) == SendAll(localBus[i][channel], text, sent)

\* a deferred emit that would fan out to the listeners present when publish was called
DispatchTargetsAtPublish(i, task) ==
    SelectSeq(localBus[i][task.channel], LAMBDA c : c \in task.attached)

\* index.ts 127: the deferred callback calls localBus.emit when it runs, so the
\* listeners are the ones registered on the channel at that moment
DispatchTargets(i, task) == localBus[i][task.channel]

NewSocket == [state |-> "new", inst |-> "A", roomId |-> NoRoom]

\* no GET /comments request has arrived
IdleRead ==
    [phase |-> "idle", videoId |-> NoRoom, key |-> CacheKey("live", NoRoom), limit |-> 0,
     status |-> "none", from |-> "none", items |-> <<>>]

BusInit ==
    /\ REDIS_URL \in BOOLEAN
    /\ ws = [c \in Conns |-> NewSocket]
    /\ roomSubscribers = [i \in Instances |-> <<>>]
    /\ localBus = [i \in Instances |-> [ch \in Channels |-> <<>>]]
    /\ immediateQ = [i \in Instances |-> <<>>]
    /\ sent = [c \in Conns |-> <<>>]
    /\ redisPubQ = [i \in Instances |-> <<>>]
    /\ redisSubQ = [i \in Instances |-> <<>>]
    /\ redisMsgQ = [i \in Instances |-> <<>>]
    /\ redisSubs = [i \in Instances |-> {}]
    /\ cache = [k \in CacheKeys |-> <<>>]
    /\ nPub = 0
    /\ owed = {}
    /\ hist = {}
    /\ rd = IdleRead


(***************************************************************************)
(* Connection registry: wss.on('connection') and ws.on('close').           *)
(***************************************************************************)
\* the sockets of instance i that are in the registry's set for roomId
Members(i, roomId) ==
    IF roomId \in DOMAIN roomSubscribers[i] THEN roomSubscribers[i][roomId] ELSE {}

\* a join that installs a fresh set for the room on every connection
TrackSubscriberReset(reg, roomId, c) == MapSet(reg, roomId, {c})

\* index.ts 183-184: create the room's set when absent, then add the socket
TrackSubscriber(reg, roomId, c) ==
    LET reg1 == IF roomId \notin DOMAIN reg THEN MapSet(reg, roomId, {}) ELSE reg
    IN  [reg1 EXCEPT ![roomId] = @ \cup {c}]

\* index.ts 165-173: the commands ensureSubscribeRoom issues on redisSubscriber,
\* given the registry as it is when the function is called
ensureSubscribeRoom(reg, roomId) ==
    IF REDIS_URL /\ roomId \notin DOMAIN reg
    THEN <<[op |-> "subscribe", channel |-> Channel(roomId)]>>
    ELSE <<>>

\* a connection handler that registers its listener twice
OnLocalTwice(ls, c) == Append(Append(ls, c), c)

\* index.ts 188-189: localBus.on(channel, onLocal)
OnLocal(ls, c) == Append(ls, c)

\* a close handler that forgets to remove its listener
OffLocalLeak(ls, c) == ls

\* index.ts 225: localBus.off(channel, onLocal)
OffLocal(ls, c) == RemoveListener(ls, c)

\* a close handler that drops the room entry whoever is left in it
UntrackSubscriberDropRoom(reg, roomId, c) == MapDelete(reg, roomId)

\* index.ts 226-233: the registry after the close handler of socket c
UntrackSubscriber(reg, roomId, c) ==
    IF roomId \notin DOMAIN reg THEN reg
    ELSE LET set == reg[roomId] \ {c}
         IN  IF set = {} THEN MapDelete(reg, roomId)
             ELSE [reg EXCEPT ![roomId] = set]

\* index.ts 229-231: the commands the close handler issues on redisSubscriber
UnsubscribeOnClose(reg, roomId, c) ==
    IF roomId \in DOMAIN reg /\ reg[roomId] \ {c} = {} /\ REDIS_URL
    THEN <<[op |-> "unsubscribe", channel |-> Channel(roomId)]>>
    ELSE <<>>

\* index.ts 175-189: a socket connects to instance i with ?roomId=r
Connect(c, i, r) ==
    /\ ws[c].state = "new"
    /\ IF r = ""
       THEN /\ ws' = [ws EXCEPT ![c] = [NewSocket EXCEPT !.state = "rejected"]]
            /\ UNCHANGED <<roomSubscribers, localBus, redisSubQ>>
       ELSE LET reg  == TrackSubscriber(roomSubscribers[i], r, c)
                cmds == ensureSubscribeRoom(reg, r)
            IN  /\ ws' = [ws EXCEPT ![c] = [state |-> "open", inst |-> i, roomId |-> r]]
                /\ roomSubscribers' = [roomSubscribers EXCEPT ![i] = reg]
                /\ redisSubQ' = [redisSubQ EXCEPT ![i] = @ \o cmds]
                /\ localBus' = [localBus EXCEPT ![i][Channel(r)] = OnLocal(@, c)]
    /\ UNCHANGED <<REDIS_URL, rd, immediateQ, sent, redisPubQ, redisMsgQ, redisSubs, cache,
                   nPub, owed, hist>>

\* index.ts 224-234: the 'close' event of an attached socket
Close(c) ==
    /\ ws[c].state = "open"
    /\ LET i == ws[c].inst
           r == ws[c].roomId
           cmds == UnsubscribeOnClose(roomSubscribers[i], r, c)
       IN  /\ localBus' = [localBus EXCEPT ![i][Channel(r)] = OffLocal(@, c)]
           /\ roomSubscribers' = [roomSubscribers EXCEPT
                                     ![i] = UntrackSubscriber(@, r, c)]
           /\ redisSubQ' = [redisSubQ EXCEPT ![i] = @ \o cmds]
    /\ ws' = [ws EXCEPT ![c] = [NewSocket EXCEPT !.state = "closed"]]
    /\ owed' = {p \in owed : p[1] # c}
    /\ UNCHANGED <<REDIS_URL, rd, immediateQ, sent, redisPubQ, redisMsgQ, redisSubs, cache,
                   nPub, hist>>

(***************************************************************************)
(* Room fanout bus: publish, the deferred local emit, the redis relay.     *)
(***************************************************************************)
\* index.ts 125: redisPublisher.publish(`room:${roomId}`, text) when configured
PublishRedis(q, roomId, text) ==
    IF REDIS_URL
    THEN Append(q, [op |-> "publish", channel |-> Channel(roomId), text |-> text])
    ELSE q

\* a publish that emits locally only when no distributed channel is configured
PublishLocalFallbackOnly(i, q, roomId, text) ==
    IF REDIS_URL THEN q
    ELSE Append(q, [kind |-> "emit", channel |-> Channel(roomId), text |-> text,
                    attached |-> {}])

\* the sockets attached to roomId on instance i
Attached(i, roomId) ==
    {c \in Conns : ws[c].state = "open" /\ ws[c].inst = i /\ ws[c].roomId = roomId}

\* index.ts 127: setImmediate(() => localBus.emit(`room:${roomId}`, text))
\* (attached is history: who was attached when publish was called)
PublishLocal(i, q, roomId, text) ==
    Append(q, [kind |-> "emit", channel |-> Channel(roomId), text |-> text,
               attached |-> Attached(i, roomId)])

\* the text of the n-th publish() call of the bus model: a 'comment' payload whose item
\* carries its id and its room (index.ts 99: publish(String(videoId), {type, item}))
PubText(n, r) == [type |-> "comment", item |-> [id |-> Uuid(n), videoId |-> r]]

\* history: the sockets on other instances a publish by instance i to room r is owed to
\* (those attached whose instance has no subscribe/unsubscribe still in flight)
OwedBy(i, r, id) ==
    IF REDIS_URL
    THEN {<<c, id>> : c \in UNION {IF j # i /\ redisSubQ[j] = <<>> THEN Attached(j, r) ELSE {}
                                    : j \in Instances}}
    ELSE {}

\* history: what is still owed once the listeners ls have been sent text
Settle(ls, text) == owed \ {<<c, text.item.id>> : c \in Range(ls)}

\* index.ts 123-128: some handler of instance i calls publish(r, payload)
PublishCall(i, r) ==
    /\ nPub < MaxPublish
    /\ LET text == PubText(nPub + 1, r)
       IN  /\ redisPubQ' = [redisPubQ EXCEPT ![i] = PublishRedis(@, r, text)]
           /\ immediateQ' = [immediateQ EXCEPT ![i] = PublishLocal(i, @, r, text)]
           /\ owed' = owed \cup OwedBy(i, r, Uuid(nPub + 1))
    /\ nPub' = nPub + 1
    /\ UNCHANGED <<REDIS_URL, rd, ws, roomSubscribers, localBus, sent, redisSubQ, redisMsgQ,
                   redisSubs, cache, hist>>

\* history: the orderings a local dispatch of task on instance i exhibits
Observed(i, task) ==
    {"lateJoin" : c \in {x \in Range(localBus[i][task.channel]) : x \notin task.attached}}
    \cup {"closedBeforeDispatch" : c \in {x \in task.attached : ws[x].state = "closed"}}

\* index.ts 103-113 / 210-217: the deferred cache write starts with LPUSH; LTRIM and
\* EXPIRE follow, each once the command before it has been answered
CacheWriteCmds(task) ==
    <<[op |-> "lpush", key |-> task.key, value |-> task.value,
       then |-> <<"ltrim", "expire">>]>>

\* the check phase of instance i's event loop runs the oldest setImmediate callback:
\* a deferred localBus.emit (index.ts 127) or a deferred cache write (index.ts 103, 210)
RunImmediate(i) ==
    /\ immediateQ[i] # <<>>
    /\ LET task == Head(immediateQ[i])
       IN  IF task.kind = "emit"
           THEN /\ sent' = SendAll(DispatchTargets(i, task), task.text, sent)
                /\ owed' = Settle(DispatchTargets(i, task), task.text)
                /\ hist' = hist \cup Observed(i, task)
                /\ UNCHANGED redisPubQ
           ELSE /\ redisPubQ' = [redisPubQ EXCEPT ![i] = @ \o CacheWriteCmds(task)]
                /\ UNCHANGED <<sent, owed, hist>>
    /\ immediateQ' = [immediateQ EXCEPT ![i] = Tail(@)]
    /\ UNCHANGED <<REDIS_URL, rd, ws, roomSubscribers, localBus, redisSubQ, redisMsgQ,
                   redisSubs, cache, nPub>>

\* the server fans a published message out to the subscribed instances
FanOut(q, channel, text) ==
    [j \in Instances |->
        IF channel \in redisSubs[j]
        THEN Append(q[j], [channel |-> channel, message |-> text])
        ELSE q[j]]

\* the server executes LPUSH / LTRIM key start stop / EXPIRE on the lists
CacheApply(lists, cmd) ==
    CASE cmd.op = "lpush" -> [lists EXCEPT ![cmd.key] = <<cmd.value>> \o @]
      [] cmd.op = "ltrim" ->
           [lists EXCEPT ![cmd.key] =
               SubSeq(@, 1, IF CacheCap < Len(@) THEN CacheCap ELSE Len(@))]
      [] OTHER -> lists

\* the command an answered cache command is followed by (the code after its await)
Continuation(cmd) ==
    IF cmd.op \in {"lpush", "ltrim"} /\ cmd.then # <<>>
    THEN <<[cmd EXCEPT !.op = Head(cmd.then), !.then = Tail(cmd.then)]>>
    ELSE <<>>

\* arr.reverse()
Reverse(arr) == [k \in 1..Len(arr) |-> arr[Len(arr) + 1 - k]]

\* the server's answer to LRANGE key 0 limit-1
LrangeReply(list, limit) == SubSeq(list, 1, IF limit < Len(list) THEN limit ELSE Len(list))

\* a handler that answers from the cache whatever the list holds
AnswersFromCacheAlways(arr) == TRUE

\* index.ts 44: Array.isArray(arr) && arr.length > 0
AnswersFromCache(arr) == arr # <<>>

\* index.ts 43-49: the LRANGE of the GET handler is answered (ok) or rejected; with a
\* non-empty answer the handler responds with the entries, parsed and reversed, else
\* (empty answer, or the rejection caught at line 49) it goes on to the store
LrangeAnswered(ok) ==
    LET arr == IF ok THEN LrangeReply(cache[rd.key], rd.limit) ELSE <<>>
    IN  IF ok /\ AnswersFromCache(arr)
        THEN [rd EXCEPT !.phase = "done", !.status = "200", !.from = "cache",
                        !.items = Reverse(arr)]
        ELSE [rd EXCEPT !.phase = "findMany"]

\* One network event of instance i's redis clients: the server executes (ok) or the
\* client gives up on (~ok, the rejection is swallowed by a catch) the oldest command
\* of redisPublisher ("pub") or of redisSubscriber ("sub"), or the oldest pushed
\* message reaches redisSubscriber.on('message') ("msg", index.ts 148-152).
RedisIO(i, src, ok) ==
    CASE src = "pub" ->
           /\ redisPubQ[i] # <<>>
           /\ LET cmd == Head(redisPubQ[i])
              IN  /\ redisMsgQ' = IF ok /\ cmd.op = "publish"
                                  THEN FanOut(redisMsgQ, cmd.channel, cmd.text)
                                  ELSE redisMsgQ
                  /\ owed' = IF ok \/ cmd.op # "publish" THEN owed
                             ELSE {p \in owed : p[2] # cmd.text.item.id}
                  /\ cache' = IF ok THEN CacheApply(cache, cmd) ELSE cache
                  /\ redisPubQ' = [redisPubQ EXCEPT
                                      ![i] = IF ok THEN Tail(@) \o Continuation(cmd)
                                             ELSE Tail(@)]
                  /\ rd' = IF cmd.op = "lrange" THEN LrangeAnswered(ok) ELSE rd
           /\ UNCHANGED <<redisSubQ, redisSubs, sent>>
      [] src = "sub" ->
           /\ redisSubQ[i] # <<>>
           /\ LET cmd == Head(redisSubQ[i])
              IN  /\ redisSubs' =
                        IF ~ok THEN redisSubs
                        ELSE IF cmd.op = "subscribe"
                             THEN [redisSubs EXCEPT ![i] = @ \cup {cmd.channel}]
                             ELSE [redisSubs EXCEPT ![i] = @ \ {cmd.channel}]
                  /\ owed' = IF ok \/ cmd.op # "subscribe" THEN owed
                             ELSE {p \in owed : ws[p[1]].inst # i}
           /\ redisSubQ' = [redisSubQ EXCEPT ![i] = Tail(@)]
           /\ UNCHANGED <<redisPubQ, redisMsgQ, sent, cache, rd>>
      [] src = "msg" ->
           /\ redisMsgQ[i] # <<>>
           /\ ok
           /\ LET m == Head(redisMsgQ[i])
              IN  /\ sent' = Emit(i, m.channel, m.message)
                  /\ owed' = Settle(localBus[i][m.channel], m.message)
           /\ redisMsgQ' = [redisMsgQ EXCEPT ![i] = Tail(@)]
           /\ UNCHANGED <<redisPubQ, redisSubQ, redisSubs, cache, rd>>

RedisStep(i) ==
    /\ \E src \in {"pub", "sub", "msg"}, ok \in BOOLEAN : RedisIO(i, src, ok)
    /\ UNCHANGED <<REDIS_URL, ws, roomSubscribers, localBus, immediateQ, nPub, hist>>

(***************************************************************************)
(* Ingestion: POST /comments (index.ts 56-116) and the socket 'comment'    *)
(* message (index.ts 191-222), on one instance.                            *)
(***************************************************************************)
MaxRequests == 1
Requests == 1..MaxRequests
IngestInst == "A"

Undefined == "undefined"
Nothing == [nothing |-> TRUE]

\* z.string().max(2000), String(data.content).slice(0, 2000)
MaxContent == 2000
\* content strings, told apart by their length
Contents == {"", "hi", "x2000", "x2001"}
ContentLen(s) ==
    CASE s = "" -> 0
      [] s = "hi" -> 2
      [] s = "x2000" -> MaxContent
      [] OTHER -> MaxContent + 1
\* index.ts 196: String(data.content).slice(0, 2000)
Slice(s) == IF ContentLen(s) > MaxContent THEN "x2000" ELSE s

PersistModes == {"none", "sample", "all"}
\* SAMPLE_RATE and the values Math.random() is drawn from, in percent
SampleRates == {0, 50, 100}
Draws == {0, 50, 99}

\* JSON.stringify of a comment object: properties whose value is undefined are left out
OptionalFields == {"replyToId", "replyToUserId"}
JSONstringify(rec) ==
    [k \in {f \in DOMAIN rec : f \notin OptionalFields \/ rec[f] # Undefined} |-> rec[k]]

\* the JSON bodies a client posts; the last stands for a body that is no JSON object
\* (c.req.json().catch(() => ({})))
HttpBodies ==
    [videoId : {"v1", ""}, userId : {"u1", ""}, content : Contents,
     replyToId : {Undefined}, replyToUserId : {Undefined}, persist : {Undefined, "true"}]
    \cup
    [videoId : {"v1"}, userId : {"u1"}, content : {"hi"},
     replyToId : {"c0"}, replyToUserId : {"u2"}, persist : {Undefined}]
    \cup
    {[videoId |-> Undefined, userId |-> Undefined, content |-> Undefined,
      replyToId |-> Undefined, replyToUserId |-> Undefined, persist |-> Undefined]}

\* a schema without the upper bound on content
SafeParseNoMax(body) ==
    /\ body.videoId \notin {Undefined, ""}
    /\ body.userId \notin {Undefined, ""}
    /\ body.content # Undefined
    /\ ContentLen(body.content) >= 1

\* index.ts 56-63, 69: createSchema.safeParse(body).success
SafeParse(body) ==
    /\ body.videoId \notin {Undefined, ""}
    /\ body.userId \notin {Undefined, ""}
    /\ body.content # Undefined
    /\ ContentLen(body.content) >= 1
    /\ ContentLen(body.content) <= MaxContent

\* the messages a socket sends, parsed; type "ping" stands for any other shape and
\* type "garbage" for a text JSON.parse throws on
WsMessages ==
    [type : {"comment"}, videoId : {"v1", ""}, userId : {"u1"}, content : Contents \ {"x2000"},
     replyToId : {Undefined}, replyToUserId : {Undefined}, scope : Scopes]
    \cup
    [type : {"comment"}, videoId : {"v1"}, userId : {"u1"}, content : {"hi"},
     replyToId : {"c0"}, replyToUserId : {"u2"}, scope : {"live"}]
    \cup
    [type : {"ping", "garbage"}, videoId : {Undefined}, userId : {Undefined},
     content : {Undefined}, replyToId : {Undefined}, replyToUserId : {Undefined},
     scope : {"live"}]

\* index.ts 195: data && data.type === 'comment' && data.videoId && data.userId && data.content
IsCommentMessage(data) ==
    /\ data.type = "comment"
    /\ data.videoId \notin {Undefined, ""}
    /\ data.userId \notin {Undefined, ""}
    /\ data.content \notin {Undefined, ""}

\* index.ts 74-75 / 197-198: the canonical record, with a fresh id and the current time
BuildTemp(n, videoId, userId, content, replyToId, replyToUserId) ==
    [id |-> Uuid(n), videoId |-> videoId, userId |-> userId, content |-> content,
     createdAt |-> <<"now", n>>, replyToId |-> replyToId, replyToUserId |-> replyToUserId]

\* a handler that gives the broadcast copy an id of its own
CreatedFreshId(temp) == [temp EXCEPT !.id = <<"uuid", 0>>]

\* index.ts 76: let created = temp
Created(temp) == temp

\* a decision that leaves the caller's override out
shouldPersistByModeOnly(forcePersist, draw) ==
    \/ PERSIST_MODE = "all"
    \/ (PERSIST_MODE = "sample" /\ draw < SAMPLE_RATE)

\* index.ts 78-79: the persistence decision of the HTTP path
shouldPersist(forcePersist, draw) ==
    \/ forcePersist
    \/ PERSIST_MODE = "all"
    \/ (PERSIST_MODE = "sample" /\ draw < SAMPLE_RATE)

\* index.ts 201: the persistence decision of the socket path
shouldSave(draw) ==
    \/ PERSIST_MODE = "all"
    \/ (PERSIST_MODE = "sample" /\ draw < SAMPLE_RATE)

\* index.ts 99-100 / 207-208: the two publish calls, their deferred local emits
BroadcastLocal(i, q, created, replyToUserId) ==
    LET item == JSONstringify(created)
        q1 == PublishLocal(i, q, created.videoId, [type |-> "comment", item |-> item])
    IN  IF replyToUserId # Undefined
        THEN PublishLocal(i, q1, UserRoom(replyToUserId), [type |-> "reply", item |-> item])
        ELSE q1

\* index.ts 99-100 / 207-208: the two publish calls, their distributed publishes
BroadcastRedis(q, created, replyToUserId) ==
    LET item == JSONstringify(created)
        q1 == PublishRedis(q, created.videoId, [type |-> "comment", item |-> item])
    IN  IF replyToUserId # Undefined
        THEN PublishRedis(q1, UserRoom(replyToUserId), [type |-> "reply", item |-> item])
        ELSE q1

\* index.ts 102-114 / 209-218: the cache write is deferred, when redis is configured
DeferCacheWrite(q, scope, created) ==
    IF REDIS_URL
    THEN Append(q, [kind |-> "cacheWrite", key |-> CacheKey(scope, created.videoId),
                    value |-> JSONstringify(created)])
    ELSE q

IdleRequest ==
    [kind |-> "none", phase |-> "idle", temp |-> Nothing, created |-> Nothing,
     replyToUserId |-> Undefined, scope |-> "live", ok |-> FALSE,
     status |-> "none", body |-> Nothing]

IngestIdle ==
    /\ PERSIST_MODE = "none"
    /\ SAMPLE_RATE = 0
    /\ reqs = [q \in Requests |-> IdleRequest]
    /\ nextId = 0
    /\ kafkaTopic = [k \in RoomIds |-> <<>>]
    /\ db = {}
    /\ nextRow = 0

IngestInit ==
    /\ PERSIST_MODE \in PersistModes
    /\ SAMPLE_RATE \in (IF PERSIST_MODE = "sample" THEN SampleRates ELSE {0})
    /\ reqs = [q \in Requests |-> IdleRequest]
    /\ nextId = 0
    /\ kafkaTopic = [k \in RoomIds |-> <<>>]
    /\ db = {}
    /\ nextRow = 0

\* ingestions are numbered in the order their handlers start
Arrives(q) ==
    /\ reqs[q].phase = "idle"
    /\ \A q2 \in 1..(q - 1) : reqs[q2].phase # "idle"

\* index.ts 98-115 (HTTP) / 206-219 (socket): broadcast, defer the cache write, answer
Deliver(i, q, kind, created, replyToUserId, scope, status) ==
    /\ immediateQ' = [immediateQ EXCEPT
          ![i] = DeferCacheWrite(BroadcastLocal(i, @, created, replyToUserId),
                                 scope, created)]
    /\ redisPubQ' = [redisPubQ EXCEPT
          ![i] = BroadcastRedis(@, created, replyToUserId)]
    /\ reqs' = [reqs EXCEPT ![q] = [IdleRequest EXCEPT
                    !.kind = kind, !.phase = "done", !.status = status,
                    !.ok = reqs[q].ok, !.body = JSONstringify(created)]]

\* index.ts 67-97: POST /comments up to the await of producer.send, and to the end of
\* the handler when nothing is to be enqueued
HttpPost(i, q, body, queryPersist, scope, draw) ==
    /\ Arrives(q)
    /\ IF ~SafeParse(body)
       THEN /\ reqs' = [reqs EXCEPT ![q] = [IdleRequest EXCEPT
                           !.kind = "http", !.phase = "done", !.status = "400"]]
            /\ UNCHANGED <<nextId, immediateQ, redisPubQ>>
       ELSE LET temp == BuildTemp(nextId + 1, body.videoId, body.userId, body.content,
                                  body.replyToId, body.replyToUserId)
                forcePersist == queryPersist = "1" \/ body.persist = "true"
                started == [IdleRequest EXCEPT
                               !.kind = "http", !.temp = temp, !.created = Created(temp),
                               !.replyToUserId = body.replyToUserId, !.scope = scope]
            IN  /\ nextId' = nextId + 1
                /\ IF shouldPersist(forcePersist, draw)
                   THEN /\ reqs' = [reqs EXCEPT ![q] = [started EXCEPT !.phase = "awaitSend"]]
                        /\ UNCHANGED <<immediateQ, redisPubQ>>
                   ELSE Deliver(i, q, "http", Created(temp), body.replyToUserId,
                                scope, "200")
    /\ UNCHANGED <<REDIS_URL, rd, ws, roomSubscribers, localBus, sent, redisSubQ, redisMsgQ,
                   redisSubs, cache, nPub, owed, hist>>
    /\ UNCHANGED <<PERSIST_MODE, SAMPLE_RATE, kafkaTopic, db, nextRow>>

\* index.ts 81-90: the broker settles producer.send; on success the topic's partition
\* of the key holds {key: videoId, value: JSON.stringify(temp)}
KafkaBroker(q, ok) ==
    /\ reqs[q].phase = "awaitSend"
    /\ kafkaTopic' =
          IF ok
          THEN [kafkaTopic EXCEPT ![reqs[q].temp.videoId] =
                   Append(@, [key |-> reqs[q].temp.videoId,
                              value |-> JSONstringify(reqs[q].temp)])]
          ELSE kafkaTopic
    /\ reqs' = [reqs EXCEPT ![q].phase = "sendSettled", ![q].ok = ok]
    /\ UNCHANGED busVars
    /\ UNCHANGED <<PERSIST_MODE, SAMPLE_RATE, nextId, db, nextRow>>

\* a handler that answers 500 when producer.send was rejected
ResponseStatusOfSend(ok) == IF ok THEN "200" ELSE "500"

\* index.ts 91-96, 115: the rejection of producer.send is caught and logged; the
\* handler answers c.json(created), status 200, either way
ResponseStatus(ok) == "200"

\* index.ts 91-115: the handler resumes after the await (the catch only logs)
HttpResume(i, q) ==
    /\ reqs[q].phase = "sendSettled"
    /\ Deliver(i, q, "http", reqs[q].created, reqs[q].replyToUserId, reqs[q].scope,
               ResponseStatus(reqs[q].ok))
    /\ UNCHANGED <<REDIS_URL, rd, ws, roomSubscribers, localBus, sent, redisSubQ, redisMsgQ,
                   redisSubs, cache, nPub, owed, hist>>
    /\ UNCHANGED <<PERSIST_MODE, SAMPLE_RATE, nextId, kafkaTopic, db, nextRow>>

\* index.ts 191-222: a message of socket c, up to the await of prisma.comment.create;
\* when nothing is to be saved, save() resolves at once and its .then callback runs as
\* a microtask, before any other event
WsMessage(i, q, c, data, draw) ==
    /\ Arrives(q)
    /\ ws[c].state = "open"
    /\ ws[c].inst = i
    /\ IF ~IsCommentMessage(data)
       THEN /\ reqs' = [reqs EXCEPT ![q] = [IdleRequest EXCEPT
                           !.kind = "ws", !.phase = "done", !.status = "ignored"]]
            /\ UNCHANGED <<nextId, immediateQ, redisPubQ>>
       ELSE LET temp == BuildTemp(nextId + 1, data.videoId, data.userId,
                                  Slice(data.content), data.replyToId, data.replyToUserId)
                started == [IdleRequest EXCEPT
                               !.kind = "ws", !.temp = temp, !.created = temp,
                               !.replyToUserId = data.replyToUserId,
                               !.scope = data.scope]
            IN  /\ nextId' = nextId + 1
                /\ IF shouldSave(draw)
                   THEN /\ reqs' = [reqs EXCEPT ![q] = [started EXCEPT !.phase = "awaitDb"]]
                        /\ UNCHANGED <<immediateQ, redisPubQ>>
                   ELSE Deliver(i, q, "ws", temp, data.replyToUserId, data.scope, "sent")
    /\ UNCHANGED <<REDIS_URL, rd, ws, roomSubscribers, localBus, sent, redisSubQ, redisMsgQ,
                   redisSubs, cache, nPub, owed, hist>>
    /\ UNCHANGED <<PERSIST_MODE, SAMPLE_RATE, kafkaTopic, db, nextRow>>

\* the row prisma.comment.create({data: {videoId, userId, content}}) stores and returns:
\* id and createdAt are the store's own
NewRow(k, data) ==
    [id |-> <<"row", k>>, videoId |-> data.videoId, userId |-> data.userId,
     content |-> data.content, createdAt |-> <<"db", k>>]

\* index.ts 202-203: the store settles prisma.comment.create; a failure is caught and
\* save() returns temp
DbCreate(q, ok) ==
    /\ reqs[q].phase = "awaitDb"
    /\ IF ok
       THEN /\ db' = db \cup {NewRow(nextRow + 1, reqs[q].temp)}
            /\ nextRow' = nextRow + 1
            /\ reqs' = [reqs EXCEPT ![q].phase = "dbSettled", ![q].ok = TRUE,
                                    ![q].created = NewRow(nextRow + 1, reqs[q].temp)]
       ELSE /\ reqs' = [reqs EXCEPT ![q].phase = "dbSettled"]
            /\ UNCHANGED <<db, nextRow>>
    /\ UNCHANGED busVars
    /\ UNCHANGED <<PERSIST_MODE, SAMPLE_RATE, nextId, kafkaTopic>>

\* index.ts 206-219: save().then(created => ...)
WsResume(i, q) ==
    /\ reqs[q].phase = "dbSettled"
    /\ Deliver(i, q, "ws", reqs[q].created, reqs[q].replyToUserId, reqs[q].scope, "sent")
    /\ UNCHANGED <<REDIS_URL, rd, ws, roomSubscribers, localBus, sent, redisSubQ, redisMsgQ,
                   redisSubs, cache, nPub, owed, hist>>
    /\ UNCHANGED <<PERSIST_MODE, SAMPLE_RATE, nextId, kafkaTopic, db, nextRow>>


(***************************************************************************)
(* The consumers: the Kafka consumer (worker.ts) and the list worker        *)
(* (part_001), both inserting into the Comment table.                       *)
(***************************************************************************)
MaxEntries == 2
MaxRedeliver == 1
\* stands for the 100 entries one LRANGE takes (part_001 line 17)
BATCH_SIZE == 2

\* the room entry n is keyed to
RoomOf(n) == IF n % 3 = 0 THEN "v2" ELSE "v1"
\* the comments whose entries producers put on the queues
EntryIds == 1..(MaxEntries + 1)
\* the value index.ts 84 enqueues for the n-th comment: JSON.stringify(temp)
EntryValue(n) == JSONstringify(BuildTemp(n, RoomOf(n), "u1", "hi", Undefined, Undefined))
\* an entry that parses but has an empty body, and a text JSON.parse throws on
InvalidEntry == JSONstringify(BuildTemp(0, "v1", "u1", "", Undefined, Undefined))
Garbage == [garbage |-> TRUE]
WorkerEntries == {EntryValue(n) : n \in EntryIds} \cup {InvalidEntry, Garbage}
\* the key an entry is produced with (index.ts 83: key: videoId)
KeyOf(value) == IF "videoId" \in DOMAIN value THEN value.videoId ELSE "v1"
\* history: the comment id a queue entry carries
EntryId(value) == IF "id" \in DOMAIN value THEN value.id ELSE <<"none", 0>>

Truthy(value, f) == f \in DOMAIN value /\ value[f] # ""

\* worker.ts 26-27 / part_001 37-39: JSON.parse succeeds and
\* commentData.videoId && commentData.userId && commentData.content
IsValidEntry(value) ==
    /\ "garbage" \notin DOMAIN value
    /\ Truthy(value, "videoId")
    /\ Truthy(value, "userId")
    /\ Truthy(value, "content")

\* worker.ts 28-32 / part_001 40-44: what is pushed on validComments
ToInsert(value) ==
    [videoId |-> value.videoId, userId |-> value.userId, content |-> value.content]

\* a loop that puts each validated entry in front of the ones before it
RECURSIVE ValidCommentsNewestFirst(_)
ValidCommentsNewestFirst(values) ==
    IF values = <<>> THEN <<>>
    ELSE IF IsValidEntry(Head(values))
         THEN ValidCommentsNewestFirst(Tail(values))
              \o <<[data |-> ToInsert(Head(values)), from |-> EntryId(Head(values))]>>
         ELSE ValidCommentsNewestFirst(Tail(values))

\* the loop over the batch (worker.ts 22-45 / part_001 35-51): validComments, with the
\* id of the entry each came from as history
RECURSIVE ValidComments(_)
ValidComments(values) ==
    IF values = <<>> THEN <<>>
    ELSE IF IsValidEntry(Head(values))
         THEN <<[data |-> ToInsert(Head(values)), from |-> EntryId(Head(values))]>>
              \o ValidComments(Tail(values))
         ELSE ValidComments(Tail(values))

\* part_001 45-50: invalidMessages
RECURSIVE InvalidMessages(_)
InvalidMessages(values) ==
    IF values = <<>> THEN <<>>
    ELSE IF IsValidEntry(Head(values))
         THEN InvalidMessages(Tail(values))
         ELSE <<Head(values)>> \o InvalidMessages(Tail(values))

\* prisma.comment.createMany({data, skipDuplicates: true}) on the Comment table
\* (migration.sql: id is the only unique column): a row whose id is already stored is
\* skipped; a row given no id gets the store's next one.
\* st = [rows, k, origin]; items = validComments
RECURSIVE CreateMany(_, _)
CreateMany(st, items) ==
    IF items = <<>> THEN st
    ELSE LET d == Head(items).data
             id == IF "id" \in DOMAIN d THEN d.id ELSE <<"row", st.k + 1>>
         IN  IF \E row \in st.rows : row.id = id
             THEN CreateMany(st, Tail(items))
             ELSE CreateMany([rows |-> st.rows \cup {[NewRow(st.k + 1, d) EXCEPT !.id = id]},
                              k |-> st.k + 1,
                              origin |-> st.origin \cup {<<id, Head(items).from>>}],
                             Tail(items))

\* the three variables createMany changes
Insert(items) ==
    LET st == CreateMany([rows |-> db, k |-> nextRow, origin |-> origin], items)
    IN  /\ db' = st.rows
        /\ nextRow' = st.k
        /\ origin' = st.origin

IdleConsumer == [phase |-> "idle", validComments |-> <<>>]
IdleListWorker == [phase |-> "idle", messages |-> <<>>, validComments |-> <<>>,
                   toDlq |-> <<>>]

\* the processes that can run the list worker on comments:queue
ListWorkers == {1, 2}

WorkerIdle ==
    /\ kOffset = [p \in RoomIds |-> 0]
    /\ kc = IdleConsumer
    /\ listQueue = <<>>
    /\ dlq = <<>>
    /\ lw = [w \in ListWorkers |-> IdleListWorker]
    /\ produced = 0
    /\ redelivered = 0
    /\ origin = {}

\* a producer's send is acknowledged (index.ts 81-90, as KafkaBroker): the entry is
\* appended to the partition of its key. The same entry can be appended again.
Produce(value) ==
    /\ produced < MaxEntries
    /\ produced' = produced + 1
    /\ kafkaTopic' = [kafkaTopic EXCEPT ![KeyOf(value)] =
                         Append(@, [key |-> KeyOf(value), value |-> value])]
    /\ UNCHANGED <<kOffset, kc, listQueue, dlq, lw, redelivered, origin>>
    /\ UNCHANGED <<PERSIST_MODE, SAMPLE_RATE, reqs, nextId, db, nextRow>>
    /\ UNCHANGED busVars

\* a producer appends an entry to the tail of comments:queue
Enqueue(value) ==
    /\ REDIS_URL
    /\ produced < MaxEntries
    /\ produced' = produced + 1
    /\ listQueue' = Append(listQueue, value)
    /\ UNCHANGED <<kOffset, kc, dlq, lw, redelivered, origin>>
    /\ UNCHANGED ingestVars
    /\ UNCHANGED busVars

\* worker.ts 19-47: eachBatch is handed the next n messages of partition p; the loop
\* validates each and resolves its offset; createMany is awaited if any validated
EachBatch(p, n) ==
    /\ kc.phase = "idle"
    /\ n >= 1
    /\ kOffset[p] + n <= Len(kafkaTopic[p])
    /\ LET batch == SubSeq(kafkaTopic[p], kOffset[p] + 1, kOffset[p] + n)
           validComments == ValidComments([k \in 1..n |-> batch[k].value])
       IN  kc' = IF validComments # <<>>
                 THEN [phase |-> "createMany", validComments |-> validComments]
                 ELSE IdleConsumer
    /\ kOffset' = [kOffset EXCEPT ![p] = @ + n]
    /\ UNCHANGED <<listQueue, dlq, lw, produced, redelivered, origin>>
    /\ UNCHANGED ingestVars
    /\ UNCHANGED busVars

\* worker.ts 48-60: the store settles createMany; a failure is logged
KafkaInsert(ok) ==
    /\ kc.phase = "createMany"
    /\ IF ok THEN Insert(kc.validComments) ELSE UNCHANGED <<db, nextRow, origin>>
    /\ kc' = IdleConsumer
    /\ UNCHANGED <<kOffset, listQueue, dlq, lw, produced, redelivered>>
    /\ UNCHANGED <<PERSIST_MODE, SAMPLE_RATE, reqs, nextId, kafkaTopic>>
    /\ UNCHANGED busVars

\* worker.ts 7, 14, 18: the group's consumer restarts (or the partition is reassigned)
\* before the resolved offsets were committed, and resumes from an earlier offset
Redeliver(p, k) ==
    /\ kc.phase = "idle"
    /\ redelivered < MaxRedeliver
    /\ k < kOffset[p]
    /\ kOffset' = [kOffset EXCEPT ![p] = k]
    /\ redelivered' = redelivered + 1
    /\ UNCHANGED <<kc, listQueue, dlq, lw, produced, origin>>
    /\ UNCHANGED ingestVars
    /\ UNCHANGED busVars

\* a worker whose failed redis command ends the process (part_001 94-98 would exit)
EscapesWorker(state) == [state EXCEPT !.phase = "exited"]

\* part_001 80-83: a redis command that rejects inside processBatch is caught by the
\* outer catch, which logs; processBatch returns and the loop of startWorker goes on
CaughtByWorker(state) == IdleListWorker

\* part_001 26-29: worker w's LRANGE comments:queue 0 BATCH_SIZE-1 is answered; an
\* empty answer ends processBatch, a failure is caught at line 80
Lrange(w, ok) ==
    /\ REDIS_URL
    /\ lw[w].phase = "idle"
    /\ listQueue # <<>>
    /\ lw' = [lw EXCEPT ![w] =
                IF ok
                THEN [IdleListWorker EXCEPT
                         !.phase = "ltrim",
                         !.messages = SubSeq(listQueue, 1,
                                             IF Len(listQueue) < BATCH_SIZE
                                             THEN Len(listQueue) ELSE BATCH_SIZE)]
                ELSE CaughtByWorker(lw[w])]
    /\ UNCHANGED <<kOffset, kc, listQueue, dlq, produced, redelivered, origin>>
    /\ UNCHANGED ingestVars
    /\ UNCHANGED busVars

\* where processBatch goes after the validation loop (part_001 54, 75)
AfterValidation(validComments, invalidMessages) ==
    IF validComments # <<>>
    THEN [phase |-> "createMany", messages |-> <<>>, validComments |-> validComments,
          toDlq |-> invalidMessages]
    ELSE IF invalidMessages # <<>>
         THEN [phase |-> "rpush", messages |-> <<>>, validComments |-> <<>>,
               toDlq |-> invalidMessages]
         ELSE IdleListWorker

\* the server executes LTRIM key start -1: the elements from index start on stay
LtrimFrom(list, start) ==
    IF start >= Len(list) THEN <<>> ELSE SubSeq(list, start + 1, Len(list))

\* part_001 30-54: worker w's LTRIM comments:queue messages.length -1 is answered, then
\* the validation loop runs; a failure is caught at line 80
Ltrim(w, ok) ==
    /\ lw[w].phase = "ltrim"
    /\ IF ok
       THEN /\ listQueue' = LtrimFrom(listQueue, Len(lw[w].messages))
            /\ lw' = [lw EXCEPT ![w] = AfterValidation(ValidComments(lw[w].messages),
                                                       InvalidMessages(lw[w].messages))]
       ELSE /\ lw' = [lw EXCEPT ![w] = CaughtByWorker(lw[w])]
            /\ UNCHANGED listQueue
    /\ UNCHANGED <<kOffset, kc, dlq, produced, redelivered, origin>>
    /\ UNCHANGED ingestVars
    /\ UNCHANGED busVars

\* part_001 66: validComments.map(c => JSON.stringify(c)).concat(invalidMessages)
AllBatchMessages(validComments, invalidMessages) ==
    [k \in 1..Len(validComments) |-> validComments[k].data] \o invalidMessages

\* part_001 55-79: the store settles worker w's createMany
ListInsert(w, ok) ==
    /\ lw[w].phase = "createMany"
    /\ IF ok
       THEN /\ Insert(lw[w].validComments)
            /\ lw' = [lw EXCEPT ![w] =
                        IF lw[w].toDlq # <<>>
                        THEN [lw[w] EXCEPT !.phase = "rpush", !.validComments = <<>>]
                        ELSE IdleListWorker]
       ELSE /\ UNCHANGED <<db, nextRow, origin>>
            /\ lw' = [lw EXCEPT ![w] =
                        [lw[w] EXCEPT !.phase = "rpush", !.validComments = <<>>,
                                      !.toDlq = AllBatchMessages(lw[w].validComments,
                                                                 lw[w].toDlq)]]
    /\ UNCHANGED <<kOffset, kc, listQueue, dlq, produced, redelivered>>
    /\ UNCHANGED <<PERSIST_MODE, SAMPLE_RATE, reqs, nextId, kafkaTopic>>
    /\ UNCHANGED busVars

\* part_001 68 / 76: worker w's RPUSH comments:queue:dlq is answered; a failure is
\* caught at line 80
DlqPush(w, ok) ==
    /\ lw[w].phase = "rpush"
    /\ dlq' = IF ok THEN dlq \o lw[w].toDlq ELSE dlq
    /\ lw' = [lw EXCEPT ![w] = IF ok THEN IdleListWorker ELSE CaughtByWorker(lw[w])]
    /\ UNCHANGED <<kOffset, kc, listQueue, produced, redelivered, origin>>
    /\ UNCHANGED ingestVars
    /\ UNCHANGED busVars

\* SpecWorker runs one list worker process
SoleWorker == {1}

WorkerNext ==
    \/ \E value \in WorkerEntries : Produce(value)
    \/ \E value \in WorkerEntries : Enqueue(value)
    \/ \E p \in RoomIds, n \in 1..MaxEntries : EachBatch(p, n)
    \/ \E ok \in BOOLEAN : KafkaInsert(ok)
    \/ \E p \in RoomIds, k \in 0..MaxEntries : Redeliver(p, k)
    \/ \E w \in SoleWorker, ok \in BOOLEAN : Lrange(w, ok)
    \/ \E w \in SoleWorker, ok \in BOOLEAN : Ltrim(w, ok)
    \/ \E w \in SoleWorker, ok \in BOOLEAN : ListInsert(w, ok)
    \/ \E w \in SoleWorker, ok \in BOOLEAN : DlqPush(w, ok)

InitWorker ==
    /\ BusInit
    /\ IngestIdle
    /\ WorkerIdle

SpecWorker == InitWorker /\ [][WorkerNext]_vars

\* The consumers keep running: kafkajs calls eachBatch while messages are to be had
\* (worker.ts 18-19), startWorker calls processBatch every second for ever (part_001
\* 86-92), and the store and redis answer every command, the queue commands LRANGE
\* and LTRIM in the end with success.
FairWorker ==
    /\ WF_vars(\E p \in RoomIds, n \in 1..MaxEntries : EachBatch(p, n))
    /\ WF_vars(\E ok \in BOOLEAN : KafkaInsert(ok))
    /\ \A w \in SoleWorker :
          /\ WF_vars(Lrange(w, TRUE))
          /\ SF_vars(Ltrim(w, TRUE))
          /\ WF_vars(\E ok \in BOOLEAN : ListInsert(w, ok))
          /\ WF_vars(\E ok \in BOOLEAN : DlqPush(w, ok))

SpecWorkerFair == InitWorker /\ [][WorkerNext]_vars /\ FairWorker

(***************************************************************************)
(* SpecListWorkers: two processes running the list worker (part_001) on    *)
(* the same comments:queue while producers append entries with fresh ids.   *)
(***************************************************************************)
ListWorkersNext ==
    \/ Enqueue(EntryValue(produced + 1))
    \/ \E w \in ListWorkers, ok \in BOOLEAN : Lrange(w, ok)
    \/ \E w \in ListWorkers, ok \in BOOLEAN : Ltrim(w, ok)
    \/ \E w \in ListWorkers, ok \in BOOLEAN : ListInsert(w, ok)
    \/ \E w \in ListWorkers, ok \in BOOLEAN : DlqPush(w, ok)

SpecListWorkers == InitWorker /\ [][ListWorkersNext]_vars

(***************************************************************************)
(* SpecIngest: one instance taking HTTP submissions and socket messages.   *)
(***************************************************************************)
IngestRooms == {"v1", "user:u2", ""}
IngestConns == {1}

IngestNext ==
    \/ \E c \in IngestConns, r \in IngestRooms :
           Connect(c, IngestInst, r) /\ UNCHANGED <<ingestVars, workerVars>>
    \/ \E c \in IngestConns : Close(c) /\ UNCHANGED <<ingestVars, workerVars>>
    \/ \E q \in Requests, body \in HttpBodies, queryPersist \in {Undefined, "1"},
          scope \in Scopes, draw \in Draws :
           HttpPost(IngestInst, q, body, queryPersist, scope, draw) /\ UNCHANGED workerVars
    \/ \E q \in Requests, ok \in BOOLEAN :
           KafkaBroker(q, ok) /\ UNCHANGED workerVars
    \/ \E q \in Requests : HttpResume(IngestInst, q) /\ UNCHANGED workerVars
    \/ \E q \in Requests, c \in IngestConns, data \in WsMessages, draw \in Draws :
           WsMessage(IngestInst, q, c, data, draw) /\ UNCHANGED workerVars
    \/ \E q \in Requests, ok \in BOOLEAN : DbCreate(q, ok) /\ UNCHANGED workerVars
    \/ \E q \in Requests : WsResume(IngestInst, q) /\ UNCHANGED workerVars
    \/ RunImmediate(IngestInst) /\ UNCHANGED <<ingestVars, workerVars>>
    \/ RedisStep(IngestInst) /\ UNCHANGED <<ingestVars, workerVars>>

InitIngest ==
    /\ BusInit
    /\ IngestInit
    /\ WorkerIdle

SpecIngest == InitIngest /\ [][IngestNext]_vars

(***************************************************************************)
(* SpecCache: a run of POST /comments requests in mode 'none' on one        *)
(* instance, their deferred cache writes and the redis connection that      *)
(* carries them.                                                            *)
(***************************************************************************)
MaxWrites == 3

\* the bodies posted: short content, no persistence override
CacheBodies == {b \in HttpBodies : b.content \in {"hi", Undefined} /\ b.persist = Undefined}

\* index.ts 115: the handler has returned its response; the next request is taken
Returns(q) ==
    /\ reqs[q].phase = "done"
    /\ reqs' = [reqs EXCEPT ![q] = IdleRequest]
    /\ UNCHANGED busVars
    /\ UNCHANGED <<PERSIST_MODE, SAMPLE_RATE, nextId, kafkaTopic, db, nextRow>>

CacheNext ==
    \/ \E q \in Requests, body \in CacheBodies, scope \in Scopes :
           /\ nextId < MaxWrites
           /\ HttpPost(IngestInst, q, body, Undefined, scope, 0)
           /\ UNCHANGED workerVars
    \/ \E q \in Requests : Returns(q) /\ UNCHANGED workerVars
    \/ RunImmediate(IngestInst) /\ UNCHANGED <<ingestVars, workerVars>>
    \/ RedisStep(IngestInst) /\ UNCHANGED <<ingestVars, workerVars>>

InitCache ==
    /\ BusInit
    /\ IngestIdle
    /\ WorkerIdle

SpecCache == InitCache /\ [][CacheNext]_vars

(***************************************************************************)
(* SpecRead: GET /comments (index.ts 35-53) on one instance, beside POST    *)
(* /comments requests in mode 'none' and their deferred cache writes.       *)
(***************************************************************************)
\* stands for the 1000 a limit is clamped to, and for the 200 used when the limit is
\* absent or 0 (index.ts 39); CacheCap, which stands for 500, lies between them
MaxLimit == 4
DefaultLimit == 1
\* the rows the Comment table can hold when the service starts
MaxStored == 3

\* the limit query parameter as Number(limitRaw || 0) || 0 sees it: absent, empty and
\* non-numeric values are 0
LimitRaws == {-1, 0, 1, CacheCap, CacheCap + 1, MaxLimit + 1}

\* index.ts 39: Math.min(Math.max(Number(limitRaw || 0) || 0, 0), 1000) || 200
Limit(limitRaw) ==
    LET atLeast0 == IF limitRaw < 0 THEN 0 ELSE limitRaw
        clamped  == IF atLeast0 > MaxLimit THEN MaxLimit ELSE atLeast0
    IN  IF clamped = 0 THEN DefaultLimit ELSE clamped

\* the k-th row stored before the service started
StoredComment(k) ==
    NewRow(k, [videoId |-> RoomOf(k), userId |-> "u1", content |-> "hi"])

\* index.ts 51: prisma.comment.findMany({where: {videoId}, take, orderBy: {createdAt:
\* 'desc'}}): the newest `take` rows of the room, newest first
RECURSIVE TakeNewest(_, _)
TakeNewest(rows, take) ==
    IF take = 0 \/ rows = {} THEN <<>>
    ELSE LET newest == CHOOSE r \in rows :
                           \A r2 \in rows : r2.createdAt[2] <= r.createdAt[2]
         IN  <<newest>> \o TakeNewest(rows \ {newest}, take - 1)

FindManyResult(videoId, take) == TakeNewest({r \in db : r.videoId = videoId}, take)

\* index.ts 35-43: GET /comments?videoId=&limit=&scope= up to the first await: 400
\* without a videoId, LRANGE on redisPublisher when redis is configured, else findMany
GetComments(i, videoId, limitRaw, scope) ==
    /\ rd.phase = "idle"
    /\ LET started == [IdleRead EXCEPT !.videoId = videoId, !.limit = Limit(limitRaw),
                                       !.key = CacheKey(scope, videoId)]
       IN  IF videoId = ""
           THEN /\ rd' = [IdleRead EXCEPT !.phase = "done", !.status = "400"]
                /\ UNCHANGED redisPubQ
           ELSE IF REDIS_URL
                THEN /\ rd' = [started EXCEPT !.phase = "lrange"]
                     /\ redisPubQ' = [redisPubQ EXCEPT ![i] =
                            Append(@, [op |-> "lrange", key |-> started.key,
                                       stop |-> started.limit - 1])]
                ELSE /\ rd' = [started EXCEPT !.phase = "findMany"]
                     /\ UNCHANGED redisPubQ
    /\ UNCHANGED <<REDIS_URL, ws, roomSubscribers, localBus, immediateQ, sent, redisSubQ,
                   redisMsgQ, redisSubs, cache, nPub, owed, hist>>

\* index.ts 51-52: the store settles findMany; the rows are returned oldest first. A
\* rejection is not caught by the handler: the framework answers 500
FindMany(ok) ==
    /\ rd.phase = "findMany"
    /\ rd' = IF ok
             THEN [rd EXCEPT !.phase = "done", !.status = "200", !.from = "store",
                             !.items = Reverse(FindManyResult(rd.videoId, rd.limit))]
             ELSE [rd EXCEPT !.phase = "done", !.status = "500"]
    /\ UNCHANGED <<REDIS_URL, ws, roomSubscribers, localBus, immediateQ, sent, redisPubQ,
                   redisSubQ, redisMsgQ, redisSubs, cache, nPub, owed, hist>>

\* the body the writers post
ReadBodies == {b \in HttpBodies : SafeParse(b) /\ b.content = "hi" /\ b.persist = Undefined
                                               /\ b.replyToUserId = Undefined}

\* in mode 'none' the POST handler never awaits: one request at a time is in a handler
ReadNext ==
    \/ \E body \in ReadBodies :
           /\ nextId < MaxWrites
           /\ HttpPost(IngestInst, 1, body, Undefined, "live", 0)
           /\ UNCHANGED workerVars
    \/ Returns(1) /\ UNCHANGED workerVars
    \/ RunImmediate(IngestInst) /\ UNCHANGED <<ingestVars, workerVars>>
    \/ RedisStep(IngestInst) /\ UNCHANGED <<ingestVars, workerVars>>
    \/ \E videoId \in {"v1", ""}, limitRaw \in LimitRaws :
           GetComments(IngestInst, videoId, limitRaw, "live")
               /\ UNCHANGED <<ingestVars, workerVars>>
    \/ \E ok \in BOOLEAN : FindMany(ok) /\ UNCHANGED <<ingestVars, workerVars>>

\* the Comment table holds what earlier runs of the service stored
InitRead ==
    /\ BusInit
    /\ PERSIST_MODE = "none"
    /\ SAMPLE_RATE = 0
    /\ reqs = [q \in Requests |-> IdleRequest]
    /\ nextId = 0
    /\ kafkaTopic = [k \in RoomIds |-> <<>>]
    /\ db \in {{}, {StoredComment(k) : k \in 1..MaxStored}}
    /\ nextRow = Cardinality(db)
    /\ WorkerIdle

SpecRead == InitRead /\ [][ReadNext]_vars

(***************************************************************************)
(* Spec: the fanout bus and the connection registry of a two-instance       *)
(* deployment, publish() being called by some handler.                      *)
(***************************************************************************)
Init ==
    /\ BusInit
    /\ IngestIdle
    /\ WorkerIdle

Next ==
    \/ \E c \in Conns, i \in Instances, r \in RoomParams :
           Connect(c, i, r) /\ UNCHANGED <<ingestVars, workerVars>>
    \/ \E c \in Conns : Close(c) /\ UNCHANGED <<ingestVars, workerVars>>
    \/ \E i \in Instances, r \in RoomIds : PublishCall(i, r) /\ UNCHANGED <<ingestVars, workerVars>>
    \/ \E i \in Instances : RunImmediate(i) /\ UNCHANGED <<ingestVars, workerVars>>
    \/ \E i \in Instances : RedisStep(i) /\ UNCHANGED <<ingestVars, workerVars>>

Spec == Init /\ [][Next]_vars


(***************************************************************************)
(* Properties of the fanout bus and the connection registry (Spec).        *)
(***************************************************************************)
SubscribeCmd(r) == [op |-> "subscribe", channel |-> Channel(r)]
UnsubscribeCmd(r) == [op |-> "unsubscribe", channel |-> Channel(r)]

\* nothing deferred or in flight is left on any instance
Quiescent ==
    \A i \in Instances :
        /\ immediateQ[i] = <<>>
        /\ redisPubQ[i] = <<>>
        /\ redisSubQ[i] = <<>>
        /\ redisMsgQ[i] = <<>>

\* socket c joins / closes in this step
Joins(c) == ws[c].state = "new" /\ ws'[c].state = "open"
Closes(c) == ws[c].state = "open" /\ ws'[c].state = "closed"
\* instance i runs its oldest deferred callback in this step
Dispatches(i) == immediateQ[i] # <<>> /\ immediateQ'[i] = Tail(immediateQ[i])

\* C2: with the distributed channel working (the publish did not fail), once everything
\* deferred and in flight has been processed, a payload published on one instance has
\* been sent to every socket that was attached to the room on another instance when
\* publish was called (its join's redis traffic settled) and is still attached.
C2_RelayReachesOtherInstances == Quiescent => owed = {}

\* C3: with a distributed channel configured, a join to a room with no other local
\* socket issues subscribe(room:<id>) on redisSubscriber, and a join to a room that
\* already has a local socket issues nothing.
C3_FirstJoinSubscribes ==
    [][\A c \in Conns :
         (Joins(c) /\ REDIS_URL) =>
            LET i == ws'[c].inst
                r == ws'[c].roomId
            IN  redisSubQ'[i] = IF Members(i, r) = {}
                                THEN Append(redisSubQ[i], SubscribeCmd(r))
                                ELSE redisSubQ[i]]_vars

\* C4: the close handler removes the socket from its room's set; the room entry is
\* deleted, and (a distributed channel being configured) unsubscribe(room:<id>) is
\* issued, exactly when the socket was the last of its room on the instance; otherwise
\* the entry stays and nothing is issued. The registry never holds an empty set.
C4_CloseReleasesRoom ==
    /\ [](\A i \in Instances : \A r \in DOMAIN roomSubscribers[i] :
              roomSubscribers[i][r] # {})
    /\ [][\A c \in Conns, i \in Instances, r \in RoomIds :
            (Closes(c) /\ ws[c].inst = i /\ ws[c].roomId = r) =>
               LET last == Members(i, r) \ {c} = {}
               IN  /\ c \in Members(i, r)
                   /\ Members(i, r)' = Members(i, r) \ {c}
                   /\ (r \notin DOMAIN roomSubscribers'[i]) <=> last
                   /\ redisSubQ'[i] = IF last /\ REDIS_URL
                                      THEN Append(redisSubQ[i], UnsubscribeCmd(r))
                                      ELSE redisSubQ[i]]_vars

\* C4 witness: a socket has closed as the last of its room: the instance's registry is
\* empty again and the unsubscribe it issued is on its way
C4_Witness ==
    \E c \in Conns, i \in Instances, r \in RoomIds :
        /\ ws[c].state = "closed"
        /\ roomSubscribers[i] = <<>>
        /\ UnsubscribeCmd(r) \in Range(redisSubQ[i])

\* C5: every publish() schedules the local emit on the publishing instance, with or
\* without a distributed channel; a redis command that succeeds or fails touches neither
\* the deferred emits nor the caller; and when the emit runs, every socket in the
\* instance's set for the room is sent the payload.
C5_LocalDeliveryUnconditional ==
    [][/\ (nPub' = nPub + 1) =>
             \E i \in Instances, r \in RoomIds :
                 LET text == PubText(nPub + 1, r)
                 IN  /\ Len(immediateQ'[i]) = Len(immediateQ[i]) + 1
                     /\ immediateQ'[i][Len(immediateQ'[i])].channel = Channel(r)
                     /\ immediateQ'[i][Len(immediateQ'[i])].text = text
                     /\ REDIS_URL =>
                           redisPubQ'[i] = Append(redisPubQ[i],
                               [op |-> "publish", channel |-> Channel(r), text |-> text])
       /\ \A i \in Instances :
             (redisPubQ[i] # <<>> /\ redisPubQ'[i] = Tail(redisPubQ[i])) =>
                 (immediateQ' = immediateQ /\ ws' = ws /\ localBus' = localBus)
       /\ \A i \in Instances :
             Dispatches(i) =>
                LET task == Head(immediateQ[i])
                IN  \A r \in RoomIds : \A c \in Members(i, r) :
                        Channel(r) = task.channel =>
                            sent'[c] = Append(sent[c], task.text)]_vars

\* C5 witness: a socket has been sent a payload while the distributed publish of that
\* payload is still outstanding on its instance
C5_Witness ==
    \E c \in Conns :
        /\ REDIS_URL
        /\ ws[c].state = "open"
        /\ sent[c] # <<>>
        /\ \E k \in DOMAIN redisPubQ[ws[c].inst] :
               redisPubQ[ws[c].inst][k].text = sent[c][Len(sent[c])]

\* C6: once a socket's close handler has run, nothing more is sent to it.
C6_NothingSentAfterClose ==
    [][\A c \in Conns : ws[c].state = "closed" => sent'[c] = sent[c]]_vars

\* C6 witness: a deferred emit ran after a socket, attached when publish was called,
\* had closed
C6_Witness == "closedBeforeDispatch" \in hist

\* C7: when a deferred local emit runs, every socket that has joined the room on that
\* instance and is still attached is sent the payload, also a socket that joined after
\* publish was called.
C7_JoinedBeforeDispatchReceives ==
    [][\A i \in Instances :
         Dispatches(i) =>
            LET task == Head(immediateQ[i])
            IN  \A c \in Conns :
                   (/\ ws[c].state = "open"
                    /\ ws[c].inst = i
                    /\ Channel(ws[c].roomId) = task.channel)
                   => sent'[c] = Append(sent[c], task.text)]_vars

\* C7 witness: a deferred emit has delivered to a socket that joined after publish was
\* called
C7_Witness == "lateJoin" \in hist

\* C8: for every instance and room, the registry's set is exactly the set of sockets
\* that joined that room on that instance and have not closed; a join or close touches
\* the set of its own room only.
C8_RegistryMatchesSockets ==
    /\ [](\A i \in Instances, r \in RoomIds :
             Members(i, r) = {c \in Conns : /\ ws[c].state = "open"
                                            /\ ws[c].inst = i
                                            /\ ws[c].roomId = r})
    /\ [][\A c \in Conns :
            (Joins(c) \/ Closes(c)) =>
               LET i == IF Joins(c) THEN ws'[c].inst ELSE ws[c].inst
                   r == IF Joins(c) THEN ws'[c].roomId ELSE ws[c].roomId
               IN  \A i2 \in Instances, r2 \in RoomIds :
                      <<i2, r2>> # <<i, r>> => Members(i2, r2)' = Members(i2, r2)]_vars

\* C8 witness: after joins and closes, one socket has closed while another is still a
\* member of a room
C8_Witness ==
    \E c1, c2 \in Conns :
        /\ ws[c1].state = "closed"
        /\ ws[c2].state = "open"
        /\ c2 \in Members(ws[c2].inst, ws[c2].roomId)

\* C26: on every instance the local bus has exactly one listener on channel room:<id>
\* for each socket in the registry's set for that room and none for any other socket;
\* a socket that has closed or was rejected has no listener on any channel.
C26_ListenersMatchRegistry ==
    \A i \in Instances :
        /\ \A r \in AllRooms :
              /\ Range(localBus[i][Channel(r)]) = Members(i, r)
              /\ Len(localBus[i][Channel(r)]) = Cardinality(Members(i, r))
        /\ \A c \in Conns, ch \in Channels :
              ws[c].state \in {"closed", "rejected"} => c \notin Range(localBus[i][ch])

\* C26 witness: one socket has closed and another, rejected or still attached, is
\* connected after it; the attached one is the only listener of its room's channel
C26_Witness ==
    \E c1, c2 \in Conns :
        /\ ws[c1].state = "closed"
        /\ \/ ws[c2].state = "rejected"
           \/ /\ ws[c2].state = "open"
              /\ localBus[ws[c2].inst][Channel(ws[c2].roomId)] = <<c2>>
        /\ \A i \in Instances, ch \in Channels : c1 \notin Range(localBus[i][ch])

(***************************************************************************)
(* Properties of ingestion (SpecIngest).                                   *)
(***************************************************************************)
\* the elements a step appended to a queue
Appended(old, new) == SubSeq(new, Len(old) + 1, Len(new))

\* the handler of ingestion q starts a persistence attempt in this step: it calls
\* producer.send (index.ts 82) or prisma.comment.create (index.ts 203)
StartsPersistence(q) ==
    reqs[q].phase = "idle" /\ reqs'[q].phase \in {"awaitSend", "awaitDb"}

\* a deferred local emit of the 'comment' payload with this id is in the queue
EmitQueued(tasks, id) ==
    \E k \in 1..Len(tasks) :
        /\ tasks[k].kind = "emit"
        /\ tasks[k].text.type = "comment"
        /\ tasks[k].text.item.id = id

\* C1: for every accepted comment the publish to the room is issued no later than the
\* persistence attempt for the record is started (queue enqueue or store write): the
\* step that starts the attempt has called publish, so the broadcast never waits for
\* the attempt to complete.
C1_BroadcastNotAfterPersistence ==
    [][\A q \in Requests :
          StartsPersistence(q) =>
              EmitQueued(immediateQ'[IngestInst], reqs'[q].temp.id)]_vars

\* the handler of HTTP submission q runs to its response in this step
Responds(q) ==
    /\ reqs[q].phase # "done"
    /\ reqs'[q].phase = "done"
    /\ reqs'[q].kind = "http"
    /\ reqs'[q].status = "200"

\* C9: for every valid HTTP submission, the id in the response body is the id of the
\* 'comment' payload published to the room, of the 'reply' payload when there is one,
\* and of the queue entry when one was enqueued.
C9_OneIdPerSubmission ==
    /\ [](\A p \in RoomIds : \A k \in 1..Len(kafkaTopic[p]) :
             \E q \in Requests :
                 \/ /\ reqs[q].phase = "sendSettled"
                    /\ reqs[q].created.id = kafkaTopic[p][k].value.id
                 \/ /\ reqs[q].phase = "done"
                    /\ reqs[q].status = "200"
                    /\ reqs[q].body.id = kafkaTopic[p][k].value.id)
    /\ [][\A q \in Requests :
            Responds(q) =>
               LET body == reqs'[q].body
                   emits == Appended(immediateQ[IngestInst], immediateQ'[IngestInst])
                   pubs == Appended(redisPubQ[IngestInst], redisPubQ'[IngestInst])
               IN  /\ \E k \in 1..Len(emits) :
                          /\ emits[k].kind = "emit"
                          /\ emits[k].channel = Channel(body.videoId)
                          /\ emits[k].text.type = "comment"
                   /\ "replyToUserId" \in DOMAIN body =>
                          \E k \in 1..Len(emits) :
                              /\ emits[k].kind = "emit"
                              /\ emits[k].channel = Channel(UserRoom(body.replyToUserId))
                              /\ emits[k].text.type = "reply"
                   /\ \A k \in 1..Len(emits) :
                          emits[k].kind = "emit" => emits[k].text.item.id = body.id
                   /\ \A k \in 1..Len(pubs) : pubs[k].text.item.id = body.id]_vars

\* C9 witness: an HTTP submission was answered 200, its queue entry is on the topic and
\* a subscriber of the room has been sent the 'comment' payload carrying the response's id
C9_Witness ==
    \E q \in Requests, c \in IngestConns :
        /\ reqs[q].phase = "done"
        /\ reqs[q].kind = "http"
        /\ reqs[q].status = "200"
        /\ \E k \in 1..Len(kafkaTopic[reqs[q].body.videoId]) :
               kafkaTopic[reqs[q].body.videoId][k].value.id = reqs[q].body.id
        /\ \E k \in 1..Len(sent[c]) :
               /\ sent[c][k].type = "comment"
               /\ sent[c][k].item.id = reqs[q].body.id

\* C18: a valid HTTP submission is handed to the producer if and only if the caller
\* forces persistence (persist=1 or persist:true), or the mode is 'all', or the mode is
\* 'sample' and the draw is below the sample rate; nothing else is ever put on the
\* topic, and whether enqueued or not the comment is broadcast when the handler ends.
C18_EnqueueIffEligible ==
    /\ [][\A q \in Requests :
            (reqs[q].phase = "idle" /\ reqs'[q].kind = "http") =>
               \A body \in HttpBodies, queryPersist \in {Undefined, "1"},
                  scope \in Scopes, draw \in Draws :
                   (/\ SafeParse(body)
                    /\ HttpPost(IngestInst, q, body, queryPersist, scope, draw)) =>
                      LET eligible ==
                              \/ queryPersist = "1"
                              \/ body.persist = "true"
                              \/ PERSIST_MODE = "all"
                              \/ PERSIST_MODE = "sample" /\ draw < SAMPLE_RATE
                      IN  /\ reqs'[q].phase = "awaitSend" <=> eligible
                          /\ ~eligible =>
                                /\ reqs'[q].status = "200"
                                /\ EmitQueued(immediateQ'[IngestInst], Uuid(nextId + 1))]_vars
    /\ [][kafkaTopic' # kafkaTopic =>
            \E q \in Requests :
                /\ reqs[q].phase = "awaitSend"
                /\ kafkaTopic' = [kafkaTopic EXCEPT ![reqs[q].temp.videoId] =
                       Append(@, [key |-> reqs[q].temp.videoId,
                                  value |-> JSONstringify(reqs[q].temp)])]]_vars
    /\ [][\A q \in Requests :
            (reqs[q].phase = "sendSettled" /\ reqs'[q].phase = "done") =>
                /\ reqs'[q].status = "200"
                /\ EmitQueued(immediateQ'[IngestInst], reqs'[q].body.id)]_vars

\* C18 witness: in mode 'sample' a submission whose draw fell below the rate was
\* enqueued, answered and sent to a subscriber of the room
C18_Witness ==
    /\ PERSIST_MODE = "sample"
    /\ SAMPLE_RATE = 50
    /\ \E q \in Requests :
          /\ reqs[q].kind = "http"
          /\ reqs[q].status = "200"
          /\ reqs[q].ok
          /\ Len(kafkaTopic[reqs[q].body.videoId]) = 1
          /\ "persist" \notin DOMAIN kafkaTopic[reqs[q].body.videoId][1].value
          /\ \E c \in IngestConns : \E k \in 1..Len(sent[c]) :
                 sent[c][k].item.id = reqs[q].body.id

\* C19: a comment submitted over the socket takes the persistence route of the HTTP
\* path: when the mode makes it persist-eligible its entry is put on the topic under
\* the room id, and the handlers themselves never write the Comment table.
C19_SocketPersistsThroughQueue ==
    /\ [](\A q \in Requests :
            (/\ reqs[q].kind = "ws"
             /\ reqs[q].status = "sent"
             /\ PERSIST_MODE = "all"
             /\ reqs[q].temp.videoId \in RoomIds) =>
                \E k \in 1..Len(kafkaTopic[reqs[q].temp.videoId]) :
                    /\ kafkaTopic[reqs[q].temp.videoId][k].key = reqs[q].temp.videoId
                    /\ kafkaTopic[reqs[q].temp.videoId][k].value.id = reqs[q].temp.id)
    /\ [][db' = db]_vars

\* C20: in every reachable state each room's hot-cache list holds at most the cap
\* (500 in the code, CacheCap here) entries, whatever the interleaving of the cache
\* writes' push, trim and expire steps.
C20_CacheListWithinCap ==
    \A key \in CacheKeys : Len(cache[key]) <= CacheCap

\* the request body lacks a room id, an author id or a content, or has an empty one,
\* or has a content of more than 2000 characters
Malformed(body) ==
    \/ body.videoId \in {Undefined, ""}
    \/ body.userId \in {Undefined, ""}
    \/ body.content = Undefined
    \/ ContentLen(body.content) = 0
    \/ ContentLen(body.content) > MaxContent

\* C24: an HTTP submission whose room id, author id or content is empty or missing, or
\* whose content is longer than 2000 characters, is answered 400 and changes nothing
\* else: no id is drawn, nothing is enqueued, broadcast or written to the cache, at the
\* step and at any later one.
C24_InvalidRejectedNoEffect ==
    /\ [][\A q \in Requests :
            (reqs[q].phase = "idle" /\ reqs'[q].kind = "http") =>
               \A body \in HttpBodies, queryPersist \in {Undefined, "1"},
                  scope \in Scopes, draw \in Draws :
                   (/\ Malformed(body)
                    /\ HttpPost(IngestInst, q, body, queryPersist, scope, draw)) =>
                      /\ reqs'[q].status = "400"
                      /\ reqs'[q].phase = "done"
                      /\ reqs'[q].body = Nothing
                      /\ UNCHANGED <<busVars, nextId, kafkaTopic, db, workerVars>>]_vars
    /\ [][\A q \in Requests :
            reqs[q].status = "400" => reqs'[q] = reqs[q]]_vars

\* C24 witness: a submission was answered 400 while a socket is attached to a room;
\* nothing is queued for dispatch or for redis, the topic and the cache are empty
C24_Witness ==
    \E q \in Requests, c \in IngestConns :
        /\ reqs[q].status = "400"
        /\ ws[c].state = "open"
        /\ sent[c] = <<>>
        /\ immediateQ[IngestInst] = <<>>
        /\ redisPubQ[IngestInst] = <<>>
        /\ \A p \in RoomIds : kafkaTopic[p] = <<>>
        /\ \A key \in CacheKeys : cache[key] = <<>>

\* this step is the rejection of a command of a deferred cache write
CacheWriteFails(i) ==
    /\ redisPubQ[i] # <<>>
    /\ Head(redisPubQ[i]).op \in {"lpush", "ltrim", "expire"}
    /\ redisPubQ'[i] = Tail(redisPubQ[i])
    /\ cache' = cache

\* C23: when producer.send is rejected the handler still answers 200 with the record it
\* built and queues the 'comment' emit for the room; an HTTP submission is never
\* answered with anything but 200 or 400; a rejected cache command changes no
\* request, drops no pending emit and nothing that was sent.
C23_FailuresSwallowed ==
    /\ [][\A q \in Requests :
            (reqs[q].phase = "sendSettled" /\ reqs'[q] # reqs[q]) =>
                /\ reqs'[q].phase = "done"
                /\ reqs'[q].status = "200"
                /\ reqs'[q].body = JSONstringify(reqs[q].temp)
                /\ EmitQueued(immediateQ'[IngestInst], reqs[q].temp.id)]_vars
    /\ [](\A q \in Requests :
            (reqs[q].kind = "http" /\ reqs[q].phase = "done") =>
                reqs[q].status \in {"200", "400"})
    /\ [][CacheWriteFails(IngestInst) =>
            /\ reqs' = reqs
            /\ immediateQ' = immediateQ
            /\ sent' = sent]_vars

\* C23 witness: in mode 'all' the send was rejected (the topic is empty) and the cache
\* write failed (the list is empty, nothing is pending), yet the request was answered
\* 200 and the attached socket of the room was sent the comment
C23_Witness ==
    /\ PERSIST_MODE = "all"
    /\ REDIS_URL
    /\ immediateQ[IngestInst] = <<>>
    /\ redisPubQ[IngestInst] = <<>>
    /\ \A key \in CacheKeys : cache[key] = <<>>
    /\ \E q \in Requests :
          /\ reqs[q].kind = "http"
          /\ reqs[q].status = "200"
          /\ kafkaTopic[reqs[q].body.videoId] = <<>>
          /\ \E c \in IngestConns : \E k \in 1..Len(sent[c]) :
                 sent[c][k].item.id = reqs[q].body.id

(***************************************************************************)
(* Properties of the consumers (SpecWorker).                               *)
(***************************************************************************)
\* the rows stored for the queue entries carrying comment id n
RowsFor(n) == {p \in origin : p[2] = Uuid(n)}

\* C10: however often the queue entry of a comment is delivered to a consumer, in one
\* batch or in several, no more than one row is stored for that comment.
C10_RedeliveryStoresOneRow ==
    \A n \in EntryIds : Cardinality(RowsFor(n)) <= 1

\* C11: the id a comment was given at ingestion is the id of the row stored for it: no
\* persistence step stores the comment under an id of its own making.
C11_StoredUnderIngestionId == \A p \in origin : p[1] = p[2]

\* a row has been stored for the queue entry
StoredFor(value) == \E o \in origin : o[2] = EntryId(value)

\* the dead-letter list holds the queue entry, as it was or as the worker rewrote it
DeadLettered(value) ==
    \E k \in 1..Len(dlq) :
        \/ dlq[k] = value
        \/ IsValidEntry(value) /\ dlq[k] = ToInsert(value)

\* the entries of partition p the consumer has resolved the offset of
Resolved(p) == {kafkaTopic[p][k].value : k \in 1..kOffset[p]}

\* C12: the consumer advances the queue position past an entry (resolveOffset, LTRIM)
\* only once the entry has been stored or dead-lettered.
C12_AckAfterDisposition ==
    /\ [](\A p \in RoomIds : \A value \in Resolved(p) :
             StoredFor(value) \/ DeadLettered(value))
    /\ [][\A w \in ListWorkers :
            (lw[w].phase = "ltrim" /\ lw'[w].phase # "ltrim"
                                   /\ Len(listQueue') < Len(listQueue)) =>
               \A k \in 1..Len(lw[w].messages) :
                   StoredFor(lw[w].messages[k]) \/ DeadLettered(lw[w].messages[k])]_vars

\* C13: once the consumer has finished a batch, every entry it took is in exactly one
\* terminal state: a valid entry stored or dead-lettered, an invalid or unparseable
\* entry dead-lettered and not stored.
C13_EveryEntryTerminal ==
    kc.phase = "idle" =>
        \A p \in RoomIds : \A value \in Resolved(p) :
            /\ StoredFor(value) \/ DeadLettered(value)
            /\ ~(StoredFor(value) /\ DeadLettered(value))
            /\ ~IsValidEntry(value) => DeadLettered(value)

\* the bulk insert of the Kafka consumer / of the list worker fails in this step
KafkaInsertFails == kc.phase = "createMany" /\ kc'.phase = "idle" /\ db' = db
ListInsertFails(w) ==
    lw[w].phase = "createMany" /\ lw'[w].phase # "createMany" /\ db' = db

\* C14: when the bulk insert of a batch fails, nothing of the batch is stored and every
\* entry of it, valid or not, goes to the dead-letter list: the Kafka consumer has put
\* them there, the list worker is about to push them all.
C14_FailedInsertDeadLetters ==
    [][/\ KafkaInsertFails =>
             \A k \in 1..Len(kc.validComments) :
                 \E j \in 1..Len(dlq') : dlq'[j] = kc.validComments[k].data
       /\ \A w \in ListWorkers :
             ListInsertFails(w) =>
                /\ lw'[w].phase = "rpush"
                /\ Len(lw'[w].toDlq) = Len(lw[w].validComments) + Len(lw[w].toDlq)]_vars

\* C15: every entry of the dead-letter list is a queue entry as it was enqueued, with
\* its id and creation timestamp.
C15_DeadLetterVerbatim == \A k \in 1..Len(dlq) : dlq[k] \in WorkerEntries

\* C16: whatever failed in earlier batches (the store, a malformed entry, the
\* dead-letter write), the consumers go on taking batches: every entry on the list or
\* on a partition of the topic is eventually taken.
C16_ConsumerKeepsConsuming ==
    /\ (listQueue # <<>>) ~> (listQueue = <<>>)
    /\ \A p \in RoomIds :
          (kOffset[p] < Len(kafkaTopic[p])) ~> (kOffset[p] = Len(kafkaTopic[p]))

\* C16 witness: the list worker has taken a new batch after a batch whose bulk insert
\* failed went to the dead-letter list
C16_Witness ==
    /\ \E w \in ListWorkers : lw[w].phase = "ltrim"
    /\ \E k \in 1..Len(dlq) : dlq[k] \notin WorkerEntries

\* the valid entries among the messages the consumer took from partition p in this step
TakenValid(p) ==
    SelectSeq(SubSeq(kafkaTopic[p], kOffset[p] + 1, kOffset'[p]),
              LAMBDA m : IsValidEntry(m.value))

\* C17: the entries of a room are on the partition of the room's key, the consumer
\* takes them from there in the order they were enqueued, validates them in that
\* order and inserts them in that order.
C17_SameRoomInOrder ==
    /\ [](\A p \in RoomIds : \A k \in 1..Len(kafkaTopic[p]) :
             /\ kafkaTopic[p][k].key = p
             /\ IsValidEntry(kafkaTopic[p][k].value) =>
                    kafkaTopic[p][k].value.videoId = p)
    /\ [][\A p \in RoomIds :
             kOffset'[p] > kOffset[p] =>
                 /\ Len(kc'.validComments) = Len(TakenValid(p))
                 /\ \A j \in 1..Len(TakenValid(p)) :
                        kc'.validComments[j].from = TakenValid(p)[j].value.id]_vars
    /\ [][(kc.phase = "createMany" /\ kc'.phase = "idle" /\ db' # db) =>
             \A j \in 1..Len(kc.validComments) :
                 <<<<"row", nextRow + j>>, kc.validComments[j].from>> \in origin']_vars

\* C17 witness: two entries of room v1, enqueued one after the other on the topic,
\* were taken by the Kafka consumer and stored, the first before the second
C17_Witness ==
    /\ Len(kafkaTopic["v1"]) = 2
    /\ kafkaTopic["v1"][1].value = EntryValue(1)
    /\ kafkaTopic["v1"][2].value = EntryValue(2)
    /\ kOffset["v1"] = 2
    /\ redelivered = 0
    /\ origin = {<<<<"row", 1>>, Uuid(1)>>, <<<<"row", 2>>, Uuid(2)>>}

\* the ids of the queue entries worker w has read and not finished with
HeldIds(w) ==
    {EntryId(lw[w].messages[k]) : k \in 1..Len(lw[w].messages)}
        \cup {lw[w].validComments[k].from : k \in 1..Len(lw[w].validComments)}

\* C25: the entries an LTRIM of the list worker removes from the queue are exactly the
\* ones that worker read with its LRANGE, and no entry is in the hands of two workers,
\* with producers appending and two worker processes on the same queue.
C25_TrimRemovesOwnBatch ==
    /\ [][\A w \in ListWorkers :
            (lw[w].phase = "ltrim" /\ lw'[w].phase # "ltrim" /\ listQueue' # listQueue) =>
                SubSeq(listQueue, 1, Len(listQueue) - Len(listQueue')) = lw[w].messages]_vars
    /\ [](\A w1, w2 \in ListWorkers : w1 # w2 => HeldIds(w1) \cap HeldIds(w2) = {})

(***************************************************************************)
(* Properties of the read path (SpecRead).                                 *)
(***************************************************************************)
\* C21: a read answered from the hot cache, with any accepted limit and at any point
\* relative to the cache writes, returns at most the cap (500 in the code, CacheCap
\* here) of entries, ordered oldest to newest.
C21_ReadWithinCap ==
    (rd.phase = "done" /\ rd.from = "cache") =>
        /\ Len(rd.items) <= CacheCap
        /\ \A j, k \in 1..Len(rd.items) :
               j < k => rd.items[j].createdAt[2] < rd.items[k].createdAt[2]

\* the LRANGE of the pending read is the command redis answers next
LrangeNext(i) == redisPubQ[i] # <<>> /\ Head(redisPubQ[i]).op = "lrange"

\* C22: a read is answered from the hot cache exactly when redis is configured, its
\* LRANGE succeeds and the list of the room key holds entries; when redis is not
\* configured, the LRANGE fails or the list is empty it is answered from the store
\* with the newest `limit` rows of the room, oldest first; only a failure of the
\* store makes the read fail.
C22_ReadFallsBackToStore ==
    /\ [][\A ok \in BOOLEAN :
            (LrangeNext(IngestInst) /\ RedisIO(IngestInst, "pub", ok)) =>
               /\ (rd'.phase = "done" /\ rd'.from = "cache") <=> (ok /\ cache[rd.key] # <<>>)
               /\ rd'.from = "cache" =>
                     /\ rd'.status = "200"
                     /\ rd'.items = Reverse(LrangeReply(cache[rd.key], rd.limit))
               /\ (~ok \/ cache[rd.key] = <<>>) =>
                     rd'.phase = "findMany" /\ rd'.status = "none"]_vars
    /\ [][(rd.phase = "idle" /\ rd'.phase # "idle" /\ rd'.status # "400") =>
            (rd'.phase = "findMany" <=> ~REDIS_URL) /\ (rd'.phase = "lrange" <=> REDIS_URL)]_vars
    /\ [][(rd.phase = "findMany" /\ rd'.status = "200") =>
            LET rows == {r \in db : r.videoId = rd.videoId}
                n == IF Cardinality(rows) < rd.limit THEN Cardinality(rows) ELSE rd.limit
            IN  /\ rd'.from = "store"
                /\ Len(rd'.items) = n
                /\ \A k \in 1..n : rd'.items[k] \in rows
                /\ \A j, k \in 1..n :
                       j < k => rd'.items[j].createdAt[2] < rd'.items[k].createdAt[2]
                /\ \A r \in rows :
                       (\A k \in 1..n : rd'.items[k] # r) =>
                           \A k \in 1..n : r.createdAt[2] < rd'.items[k].createdAt[2]]_vars
    /\ [][(rd.status # "500" /\ rd'.status = "500") => rd.phase = "findMany"]_vars

\* C22 witness: with redis configured a read with limit 1 was answered from the store,
\* with the newest of the room's two rows
C22_Witness ==
    /\ REDIS_URL
    /\ rd.phase = "done"
    /\ rd.from = "store"
    /\ rd.limit = 1
    /\ Cardinality({r \in db : r.videoId = rd.videoId}) = 2
    /\ Len(rd.items) = 1

=============================================================================
